---- MODULE Spec2Model ----
(***************************************************************************)
(* Classroom assignment engine of nlevy/classrooms-py.                     *)
(*                                                                         *)
(* Students are named 1..N; the order of the integers stands for the       *)
(* lexicographic order of the names ("Alice" < "Bob" < ...), which the     *)
(* code uses whenever it compares (count, name) tuples.  Class index i of  *)
(* the code (0-based) is index i+1 of the sequence `classes`.              *)
(***************************************************************************)
EXTENDS Integers, FiniteSets, Sequences, TLC

\* ------------------------------------------------------------------ bounds
MaxStudents == 4

MaxNotWith == 1

MaxCalls == 2

MaxRows == 2

MaxListed == 2

MaxParam == 4

MaxEvalClasses == 2

MaxEvaluations == 2

\* most classes in a class list handed to the balancer directly
MaxBalanceClasses == 3

\* students in the table whose balancing needs more moves than the cap
CrowdSize == 104

\* students of that table who may start in the second class
MaxSeated == 2

\* most classes asked of the CP-SAT strategy on the test tables
MaxCpSatClasses == 3

\* ------------------------------------------------------- program constants
FriendSlots == 4

\* variant: a cap as large as the largest table modelled
max_iterationsUncapped == CrowdSize

max_iterations == 50

VARIABLES
    df,                  \* the student table handed to the strategy
    G,                   \* BaseAssignmentStrategy.G: name -> set of neighbours
    not_with,            \* BaseAssignmentStrategy.not_with: name -> names
    algorithm,           \* which strategy object this is: "greedy" | "cp_sat"
    num_classes,         \* argument of assign_classes
    pc,                  \* position inside assign_classes
    classes,             \* List[Set[str]] being built / returned
    unassigned_students, \* local of _greedy_assign_classes
    solver_status,       \* CP-SAT solver status name, "NONE" before solving
    moved,               \* student moved by _validate_assignment, 0 if none
    error,               \* the exception assign_classes raised, "none" if none
    strategy_name,       \* ClassAssignmentService.strategy_name
    fallback_enabled,    \* ASSIGNMENT_FALLBACK, read at construction
    call_state,          \* state of the current assign call (spec 4.6)
    call_error,          \* what a call ending in FAIL raised to the caller
    metadata,            \* metadata of the result of the current call
    last_assignment_info,\* what get_last_assignment_info() returns
    fallback_runs,       \* fresh greedy strategies run by the current call
    calls,               \* assign calls made on this service so far
    student_rows,        \* the DataFrame handed to validate_student_data
    num_students,        \* argument of validate_assignment_parameters
    data_error,          \* what validate_student_data raised, "OK" if nothing
    param_error,         \* what validate_assignment_parameters raised
    metrics,             \* what each evaluate_solution call so far returned
    seeded,              \* local student of the seeding loop, 0 outside it
    best_class,          \* local best_class of the seeding loop, 0 outside it
    scores,              \* classes scored by _find_best_class before its fallback
    iteration            \* local iteration of _balance_classes

strategy_vars == <<df, G, not_with, algorithm, num_classes, pc, classes,
                   unassigned_students, solver_status, moved, error>>

service_vars == <<strategy_name, fallback_enabled, call_state, call_error,
                  metadata, last_assignment_info, fallback_runs, calls>>

function_vars == <<student_rows, num_students, data_error, param_error, metrics>>

loop_vars == <<seeded, best_class, scores, iteration>>

vars == <<df, G, not_with, algorithm, num_classes, pc, classes,
          unassigned_students, solver_status, moved, error,
          strategy_name, fallback_enabled, call_state, call_error,
          metadata, last_assignment_info, fallback_runs, calls,
          student_rows, num_students, data_error, param_error, metrics,
          seeded, best_class, scores, iteration>>

\* ----------------------------------------------------------------- helpers
None == [none |-> TRUE]

NoMetadata == [algorithm |-> "none"]

\* validate_student_data returned without raising
NoError == [code |-> "OK", studentName |-> 0, friendName |-> 0]

AbsInt(x) == IF x < 0 THEN -x ELSE x

\* lexicographic order on pairs, as Python compares tuples
TupleLess(a, b) == a[1] < b[1] \/ (a[1] = b[1] /\ a[2] < b[2])

RECURSIVE SubsetsUpTo(_, _)
\* subsets of S with at most k elements
SubsetsUpTo(S, k) ==
    IF k = 0 THEN {{}}
    ELSE LET prev == SubsetsUpTo(S, k - 1)
         IN  prev \cup {p \cup {x} : p \in prev, x \in S}

EmptyClasses(k) == [i \in 1..k |-> {}]

ClassSizes(cls) == {Cardinality(cls[i]) : i \in 1..Len(cls)}

MaxSize(cls) == CHOOSE m \in ClassSizes(cls) : \A n \in ClassSizes(cls) : n <= m

MinSize(cls) == CHOOSE m \in ClassSizes(cls) : \A n \in ClassSizes(cls) : m <= n

\* ------------------------------------------------------------ student data
\* name, gender, academicPerformance, behavioralPerformance columns of the
\* six-student fixture used throughout the tests
FixtureGender == <<"FEMALE", "MALE", "MALE", "MALE", "FEMALE", "MALE">>

FixtureAcademic == <<"HIGH", "MEDIUM", "LOW", "HIGH", "MEDIUM", "LOW">>

FixtureBehavioral == <<"MEDIUM", "HIGH", "MEDIUM", "LOW", "HIGH", "MEDIUM">>

\* the attribute columns a table may carry: the fixture's, or the fixture's
\* read from the last row upward
AttributeColumns(names) ==
    { [s \in names |-> [gender     |-> FixtureGender[((s - 1) % 6) + 1],
                        academic   |-> FixtureAcademic[((s - 1) % 6) + 1],
                        behavioral |-> FixtureBehavioral[((s - 1) % 6) + 1]]],
      [s \in names |-> [gender     |-> FixtureGender[6 - ((s - 1) % 6)],
                        academic   |-> FixtureAcademic[6 - ((s - 1) % 6)],
                        behavioral |-> FixtureBehavioral[6 - ((s - 1) % 6)]]] }

\* friend1..friend4 of every row for a set of friendships: a friendship is
\* listed by its lower-named student, and by the higher-named one only when
\* that student would otherwise list nobody
FriendColumns(names, edges) ==
    [s \in names |->
        LET higher == {t \in names : t > s /\ {s, t} \in edges}
            all    == {t \in names : t # s /\ {s, t} \in edges}
        IN  IF higher # {} THEN higher ELSE all]

\* the tables of n rows the validator accepts that the strategies are run on: unique
\* names, every student lists 1..4 friends, every listed friend is a row
ValidTables(n) ==
    { [names   |-> 1..n,
       friend  |-> FriendColumns(1..n, edges),
       notWith |-> [s \in 1..n |-> {p[2] : p \in {q \in nw : q[1] = s}}],
       attrs   |-> a] :
      edges \in {e \in SUBSET {{s, t} : s, t \in 1..n} :
                    /\ \A p \in e : Cardinality(p) = 2
                    /\ \A s \in 1..n :
                          LET d == Cardinality({p \in e : s \in p})
                          IN  d >= 1 /\ d <= FriendSlots},
      nw \in SubsetsUpTo({p \in (1..n) \X (1..n) : p[1] # p[2]}, MaxNotWith),
      a \in AttributeColumns(1..n) }

\* ---------------------------------------------------------- base_strategy
BuildFriendshipGraph(d) ==
    LET nodes == d.names \cup UNION {d.friend[s] : s \in d.names}
    IN  [s \in nodes |->
            {t \in nodes : (s \in d.names /\ t \in d.friend[s])
                           \/ (t \in d.names /\ s \in d.friend[t])}]

BuildNotWithDict(d) == [s \in d.names |-> d.notWith[s]]

Neighbors(s) == G[s]

Nodes == DOMAIN G

\* ------------------------------------------------------- greedy_strategy
ViolatesNotWith(student, class_set) ==
    IF student \notin DOMAIN not_with THEN FALSE
    ELSE \E other \in not_with[student] : other \in class_set

PerfMap(level) == CASE level = "LOW" -> 1 [] level = "MEDIUM" -> 2 [] level = "HIGH" -> 3

RECURSIVE SumOver(_, _)
SumOver(S, f) ==
    IF S = {} THEN 0
    ELSE LET x == CHOOSE y \in S : TRUE IN f[x] + SumOver(S \ {x}, f)

\* _calculate_class_stats, kept as exact fractions: each ratio is num/size
CalculateClassStats(class_students) ==
    [size       |-> Cardinality(class_students),
     males      |-> Cardinality({s \in class_students : df.attrs[s].gender = "MALE"}),
     academic   |-> SumOver(class_students, [s \in class_students |-> PerfMap(df.attrs[s].academic)]),
     behavioral |-> SumOver(class_students, [s \in class_students |-> PerfMap(df.attrs[s].behavioral)])]

FriendsInClass(student, class_set) == Cardinality({f \in Neighbors(student) : f \in class_set})

\* 2 * size * score of an eligible class (size >= 1 there), an integer:
\* score = size_penalty - friend_bonus + |0.5 - males/size|
\*         + |2 - academic/size| + |2 - behavioral/size|
ScoreTimes2Size(student, class_set, target_size) ==
    LET st == CalculateClassStats(class_set)
        n  == st.size
    IN  2 * n * (2 * AbsInt(n - target_size) - 4 * FriendsInClass(student, class_set))
        + AbsInt(n - 2 * st.males)
        + 2 * AbsInt(2 * n - st.academic)
        + 2 * AbsInt(2 * n - st.behavioral)

\* variant: a class holding a friend is scored whoever else is in it
EligibleClassesAnyFriend(student, cls) ==
    {i \in 1..Len(cls) : FriendsInClass(student, cls[i]) # 0}

\* the classes the loop of _find_best_class appends a score for
EligibleClasses(student, cls) ==
    {i \in 1..Len(cls) :
        /\ ~ViolatesNotWith(student, cls[i])
        /\ FriendsInClass(student, cls[i]) # 0}

FindBestClass(student, cls, k) ==
    LET target_size == Cardinality(Nodes) \div k
        eligible == EligibleClasses(student, cls)
        \* score(i) < score(j), cross-multiplied by the two class sizes
        Less(i, j) == ScoreTimes2Size(student, cls[i], target_size) * Cardinality(cls[j])
                      < ScoreTimes2Size(student, cls[j], target_size) * Cardinality(cls[i])
        \* scores = [(-(friends of the student not in class_set), i), ...]
        fallback(i) == -Cardinality({f \in Neighbors(student) : f \notin cls[i]})
    IN  IF eligible # {}
        THEN CHOOSE i \in eligible :
                \A j \in eligible : Less(i, j) \/ (~Less(j, i) /\ i <= j)
        ELSE CHOOSE i \in 1..Len(cls) :
                \A j \in 1..Len(cls) :
                    fallback(i) < fallback(j) \/ (fallback(i) = fallback(j) /\ i <= j)

\* AssignStudentGroup without the unassigned_students.remove(friend) of the
\* group-pull loop
AssignStudentGroupKeepsPulled(student, unassigned, cls, best) ==
    LET un1 == unassigned \ {student}
        target_class == cls[best] \cup {student}
        pulled == {f \in Neighbors(student) :
                      f \in un1 /\ ~ViolatesNotWith(f, target_class)}
    IN  [classes    |-> [cls EXCEPT ![best] = target_class \cup pulled],
         unassigned |-> un1]

AssignStudentGroup(student, unassigned, cls, best) ==
    IF student \notin unassigned THEN [classes |-> cls, unassigned |-> unassigned]
    ELSE
    LET un1 == unassigned \ {student}
        target_class == cls[best] \cup {student}
        unassigned_friends == {f \in Neighbors(student) :
                                  f \in un1 /\ ~ViolatesNotWith(f, target_class)}
        friend_score(friend) ==
            FriendsInClass(friend, target_class)
            + Cardinality({f \in Neighbors(friend) :
                              f \in unassigned_friends /\ f \in Neighbors(student)})
        \* sorted(friend_scores, reverse=True)[:2]
        taken == {f \in unassigned_friends :
                    Cardinality({g \in unassigned_friends :
                        TupleLess(<<friend_score(f), f>>, <<friend_score(g), g>>)}) < 2}
    IN  [classes    |-> [cls EXCEPT ![best] = target_class \cup taken],
         unassigned |-> un1 \ taken]

\* max(range(len(classes)), key=len) / min(...): the first index wins a tie
MaxClass(cls) == CHOOSE i \in 1..Len(cls) :
    \A j \in 1..Len(cls) :
        Cardinality(cls[i]) > Cardinality(cls[j])
        \/ (Cardinality(cls[i]) = Cardinality(cls[j]) /\ i <= j)

MinClass(cls) == CHOOSE i \in 1..Len(cls) :
    \A j \in 1..Len(cls) :
        Cardinality(cls[i]) < Cardinality(cls[j])
        \/ (Cardinality(cls[i]) = Cardinality(cls[j]) /\ i <= j)

\* the students of the largest class the balancer may move
MoveableStudents(cls, force_balance) ==
    LET max_class == MaxClass(cls)
        min_class == MinClass(cls)
        friends_in_target(student) == FriendsInClass(student, cls[min_class])
        safe_to_move(student) ==
            \A friend \in Neighbors(student) :
                friend \in cls[max_class] =>
                    Cardinality({f \in Neighbors(friend) :
                                    f \in cls[max_class] /\ f # student}) # 0
    IN  {student \in cls[max_class] :
            /\ (friends_in_target(student) > 0 \/ force_balance)
            /\ (safe_to_move(student) \/ force_balance)}

\* variant: the student moved is the one with the fewest friends in the
\* smallest class
BalanceStepFewestFriends(cls, force_balance) ==
    LET max_class == MaxClass(cls)
        min_class == MinClass(cls)
        moveable_students == MoveableStudents(cls, force_balance)
    IN  IF Cardinality(cls[max_class]) - Cardinality(cls[min_class]) <= 2 THEN cls
        ELSE IF moveable_students = {} THEN cls
        ELSE
        LET student_to_move == CHOOSE s \in moveable_students :
                \A t \in moveable_students :
                    t = s \/ TupleLess(<<FriendsInClass(s, cls[min_class]), s>>,
                                       <<FriendsInClass(t, cls[min_class]), t>>)
        IN  [cls EXCEPT ![max_class] = @ \ {student_to_move},
                        ![min_class] = @ \cup {student_to_move}]

\* the body of the while loop of _balance_classes: the class list after the
\* iteration, the same list when the iteration breaks out of the loop
BalanceStep(cls, force_balance) ==
    LET max_class == MaxClass(cls)
        min_class == MinClass(cls)
        moveable_students == MoveableStudents(cls, force_balance)
    IN  IF Cardinality(cls[max_class]) - Cardinality(cls[min_class]) <= 2 THEN cls
        ELSE IF moveable_students = {} THEN cls
        ELSE
        \* max(moveable_students) over (friends_in_target, student) tuples
        LET student_to_move == CHOOSE s \in moveable_students :
                \A t \in moveable_students :
                    t = s \/ TupleLess(<<FriendsInClass(t, cls[min_class]), t>>,
                                       <<FriendsInClass(s, cls[min_class]), s>>)
        IN  [cls EXCEPT ![max_class] = @ \ {student_to_move},
                        ![min_class] = @ \cup {student_to_move}]

\* the loop breaks when the spread is at most 2 or nobody can be moved
BalanceBreaks(cls, force_balance) ==
    \/ Cardinality(cls[MaxClass(cls)]) - Cardinality(cls[MinClass(cls)]) <= 2
    \/ MoveableStudents(cls, force_balance) = {}

\* the while loop from its done-th iteration on: the class list and the
\* value of iteration when the loop is left
RECURSIVE BalanceLoop(_, _, _)
BalanceLoop(cls, force_balance, done) ==
    IF ~(done < max_iterations) THEN [classes |-> cls, iteration |-> done]
    ELSE IF BalanceBreaks(cls, force_balance)
         THEN [classes |-> cls, iteration |-> done]
    ELSE BalanceLoop(BalanceStep(cls, force_balance), force_balance, done + 1)

BalanceClasses(cls, force_balance) == BalanceLoop(cls, force_balance, 0).classes

\* the moves one call of _balance_classes makes
BalanceMoves(cls, force_balance) == BalanceLoop(cls, force_balance, 0).iteration

\* variant: any unassigned student may be taken
SeedCandidatesAnyStudent(unassigned) == unassigned

\* the students min() may return in the seeding loop: the key is minimal;
\* among equal keys the winner is the first in the set's iteration order,
\* which depends on the string hashes of the run
SeedCandidates(unassigned) ==
    LET key(s) == <<Cardinality({f \in Neighbors(s) : f \in unassigned}),
                    Cardinality(Neighbors(s))>>
    IN  {s \in unassigned : \A t \in unassigned : ~TupleLess(key(t), key(s))}

\* one iteration of the while loop of _greedy_assign_classes
GreedySeedStep ==
    /\ algorithm = "greedy"
    /\ pc = "seeding"
    /\ unassigned_students # {}
    /\ \E student \in SeedCandidates(unassigned_students) :
        LET best == FindBestClass(student, classes, num_classes)
            r == AssignStudentGroup(student, unassigned_students, classes, best)
            unbalanced == MaxSize(r.classes) - MinSize(r.classes) > 1
            balanced == IF unbalanced THEN BalanceClasses(r.classes, TRUE)
                        ELSE r.classes
        IN  /\ seeded' = student
            /\ best_class' = best
            /\ scores' = EligibleClasses(student, classes)
            /\ iteration' = IF unbalanced THEN BalanceMoves(r.classes, TRUE) ELSE 0
            /\ classes' = balanced
            /\ unassigned_students' = r.unassigned
            /\ pc' = IF r.unassigned = {} THEN "validate" ELSE "seeding"
    /\ UNCHANGED <<df, G, not_with, algorithm, num_classes, solver_status, moved,
                   error>>
    /\ UNCHANGED service_vars
    /\ UNCHANGED function_vars

\* the first class, in index order, holding a student without a friend in it
FirstFriendlessClass(cls) ==
    LET bad == {i \in 1..Len(cls) : \E s \in cls[i] : FriendsInClass(s, cls[i]) = 0}
    IN  IF bad = {} THEN 0 ELSE CHOOSE i \in bad : \A j \in bad : i <= j

\* the repair target taken as the first other class, friends or not
RepairClassFirstOther(student, cls) ==
    LET others == {j \in 1..Len(cls) : student \notin cls[j]}
    IN  IF others = {} THEN 0
        ELSE CHOOSE c \in others : \A d \in others : c <= d

\* friend_classes of _validate_assignment: the first class, in index order,
\* holding a friend of the student; 0 when no class does
RepairClass(student, cls) ==
    LET with_friends == {j \in 1..Len(cls) :
                            \E f \in Neighbors(student) : f \in cls[j]}
    IN  IF with_friends = {} THEN 0
        ELSE CHOOSE c \in with_friends : \A d \in with_friends : c <= d

\* _validate_assignment followed by the return of _greedy_assign_classes
GreedyValidateMove ==
    /\ algorithm = "greedy"
    /\ pc = "validate"
    /\ FirstFriendlessClass(classes) # 0
    /\ LET i == FirstFriendlessClass(classes)
       IN  \E student \in {s \in classes[i] : FriendsInClass(s, classes[i]) = 0} :
            LET j == RepairClass(student, classes)
            IN  IF j # 0
                THEN /\ classes' = [[classes EXCEPT ![i] = @ \ {student}]
                                              EXCEPT ![j] = @ \cup {student}]
                     /\ moved' = student
                ELSE /\ classes' = classes
                     /\ moved' = 0
    /\ pc' = "returned"
    /\ UNCHANGED <<df, G, not_with, algorithm, num_classes, unassigned_students,
                   solver_status, error>>
    /\ UNCHANGED service_vars
    /\ UNCHANGED function_vars
    /\ seeded' = 0
    /\ best_class' = 0
    /\ scores' = {}
    /\ iteration' = 0

GreedyValidateClean ==
    /\ algorithm = "greedy"
    /\ pc = "validate"
    /\ FirstFriendlessClass(classes) = 0
    /\ pc' = "returned"
    /\ UNCHANGED <<df, G, not_with, algorithm, num_classes, classes,
                   unassigned_students, solver_status, moved, error>>
    /\ UNCHANGED service_vars
    /\ UNCHANGED function_vars
    /\ seeded' = 0
    /\ best_class' = 0
    /\ scores' = {}
    /\ iteration' = 0

\* one iteration of the while loop of _balance_classes(classes, True), the
\* only way the strategy calls it
BalanceIteration ==
    /\ pc = "balancing"
    /\ iteration < max_iterations
    /\ ~BalanceBreaks(classes, TRUE)
    /\ classes' = BalanceStep(classes, TRUE)
    /\ iteration' = iteration + 1
    /\ UNCHANGED <<df, G, not_with, algorithm, num_classes, pc,
                   unassigned_students, solver_status, moved, error,
                   seeded, best_class, scores>>
    /\ UNCHANGED service_vars
    /\ UNCHANGED function_vars

\* the while loop left: the condition is false or the body breaks
BalanceReturn ==
    /\ pc = "balancing"
    /\ (~(iteration < max_iterations) \/ BalanceBreaks(classes, TRUE))
    /\ pc' = "balanced"
    /\ UNCHANGED <<df, G, not_with, algorithm, num_classes, classes,
                   unassigned_students, solver_status, moved, error>>
    /\ UNCHANGED service_vars
    /\ UNCHANGED function_vars
    /\ UNCHANGED loop_vars

\* --------------------------------------------------------- cp_sat_strategy
\* An assignment of the decision variables is the set of pairs <<s, c>> with
\* x[s][c] = 1.  Candidate assignments already satisfy hard constraint 1
\* (each student in exactly one class).
CandidateAssignments(k) == {{<<s, f[s]>> : s \in Nodes} : f \in [Nodes -> 1..k]}

\* the friendship constraint summed over all classes instead of per class
FriendshipConstraintAnyClass(x, k) ==
    \A s \in Nodes :
        Cardinality({p \in x : p[1] \in Neighbors(s)}) >= 1

\* HARD CONSTRAINT 2: sum of x[f][c] over the friends f of s >= x[s][c]
FriendshipConstraint(x, k) ==
    \A s \in Nodes : \A c \in 1..k :
        LET friend_indices == {f \in Neighbors(s) : f \in Nodes}
        IN  friend_indices # {} =>
                Cardinality({f \in friend_indices : <<f, c>> \in x})
                    >= (IF <<s, c>> \in x THEN 1 ELSE 0)

\* the not-with constraint added only for pairs in index order, the way the
\* objective skips the second orientation of a friendship
NotWithConstraintOneWay(x, k) ==
    \A student \in DOMAIN not_with :
        \A forbidden \in not_with[student] :
            forbidden > student =>
                \A c \in 1..k : ~(<<student, c>> \in x /\ <<forbidden, c>> \in x)

\* HARD CONSTRAINT 3: x[s][c] + x[forbidden][c] <= 1
NotWithConstraint(x, k) ==
    \A student \in DOMAIN not_with :
        student \in Nodes =>
            \A forbidden \in not_with[student] :
                forbidden \in Nodes =>
                    \A c \in 1..k :
                        (IF <<student, c>> \in x THEN 1 ELSE 0)
                        + (IF <<forbidden, c>> \in x THEN 1 ELSE 0) <= 1

\* min_size without the floor of 1
min_sizeUnclamped(k) == (Cardinality(Nodes) \div k) - 1

min_size(k) ==
    LET target_size == Cardinality(Nodes) \div k
    IN  IF target_size > 1 THEN target_size - 1 ELSE 1

max_size(k) == (Cardinality(Nodes) \div k) + 2

\* "SOFT CONSTRAINT: Balanced class sizes", added to the model as hard
ClassSizeConstraint(x, k) ==
    \A c \in 1..k :
        LET class_size == Cardinality({s \in Nodes : <<s, c>> \in x})
        IN  class_size >= min_size(k) /\ class_size <= max_size(k)

\* variant: the friendship variables created for both orders of a pair
ObjectiveValueBothOrders(x, k) ==
    Cardinality({t \in Nodes \X Nodes \X (1..k) :
                    /\ t[2] \in Neighbors(t[1])
                    /\ <<t[1], t[3]>> \in x
                    /\ <<t[2], t[3]>> \in x})

\* sum of the friendship_var the constraints force to x[s][c] AND x[f][c]
ObjectiveValue(x, k) ==
    Cardinality({t \in Nodes \X Nodes \X (1..k) :
                    /\ t[2] \in Neighbors(t[1])
                    /\ t[2] > t[1]
                    /\ <<t[1], t[3]>> \in x
                    /\ <<t[2], t[3]>> \in x})

FeasibleAssignments(k) ==
    {x \in CandidateAssignments(k) :
        /\ FriendshipConstraint(x, k)
        /\ NotWithConstraint(x, k)
        /\ ClassSizeConstraint(x, k)}

\* "Extract solution": each student joins the first class whose x is 1
ExtractSolution(x, k) ==
    [c \in 1..k |-> {s \in Nodes : <<s, c>> \in x
                                  /\ \A b \in 1..k : <<s, b>> \in x => c <= b}]

\* CPSATStrategy.assign_classes when the solver answers OPTIMAL or FEASIBLE.
\* OPTIMAL comes with an assignment of maximal objective; FEASIBLE (deadline
\* reached first) with any assignment satisfying the constraints.
CpSatSolved ==
    /\ algorithm = "cp_sat"
    /\ pc = "solving"
    /\ \A s \in Nodes : Neighbors(s) # {}
    /\ \E x \in FeasibleAssignments(num_classes) :
        \E status \in {"OPTIMAL", "FEASIBLE"} :
            /\ status = "OPTIMAL" =>
                  \A y \in FeasibleAssignments(num_classes) :
                      ObjectiveValue(y, num_classes) <= ObjectiveValue(x, num_classes)
            /\ solver_status' = status
            /\ classes' = ExtractSolution(x, num_classes)
    /\ pc' = "returned"
    /\ UNCHANGED <<df, G, not_with, algorithm, num_classes, unassigned_students, moved,
                   error>>
    /\ UNCHANGED service_vars
    /\ UNCHANGED function_vars
    /\ UNCHANGED loop_vars

\* variant: the failure is swallowed and the empty class list is returned
CpSatFailedReturnsEmpty ==
    /\ algorithm = "cp_sat"
    /\ pc = "solving"
    /\ \E status \in {"INFEASIBLE", "UNKNOWN", "NONE"} :
        /\ status = "NONE" <=> (\E s \in Nodes : Neighbors(s) = {})
        /\ status = "INFEASIBLE" => FeasibleAssignments(num_classes) = {}
        /\ solver_status' = status
    /\ pc' = "returned"
    /\ error' = "CP-SAT assignment failed"
    /\ UNCHANGED <<df, G, not_with, algorithm, num_classes, classes,
                   unassigned_students, moved>>
    /\ UNCHANGED service_vars
    /\ UNCHANGED function_vars
    /\ UNCHANGED loop_vars

\* CPSATStrategy.assign_classes raising RuntimeError: a student without
\* friends (ValueError while building), INFEASIBLE, or UNKNOWN when the
\* deadline passes before any assignment is found
CpSatFailed ==
    /\ algorithm = "cp_sat"
    /\ pc = "solving"
    /\ \E status \in {"INFEASIBLE", "UNKNOWN", "NONE"} :
        /\ status = "NONE" <=> (\E s \in Nodes : Neighbors(s) = {})
        /\ status = "INFEASIBLE" => FeasibleAssignments(num_classes) = {}
        /\ solver_status' = status
    /\ pc' = "raised"
    /\ error' = "CP-SAT assignment failed"
    /\ UNCHANGED <<df, G, not_with, algorithm, num_classes, classes,
                   unassigned_students, moved>>
    /\ UNCHANGED service_vars
    /\ UNCHANGED function_vars
    /\ UNCHANGED loop_vars

\* ------------------------------------------------------------------ system
\* a strategy object constructed over a valid table, assign_classes(K) called
Init ==
    /\ \E n \in 2..MaxStudents : df \in ValidTables(n)
    /\ G = BuildFriendshipGraph(df)
    /\ not_with = BuildNotWithDict(df)
    /\ algorithm \in {"greedy", "cp_sat"}
    /\ num_classes \in 1..Cardinality(df.names)
    /\ pc = IF algorithm = "greedy" THEN "seeding" ELSE "solving"
    /\ classes = EmptyClasses(num_classes)
    /\ unassigned_students = IF algorithm = "greedy" THEN DOMAIN G ELSE {}
    /\ solver_status = "NONE"
    /\ moved = 0
    /\ error = "none"
    /\ seeded = 0
    /\ best_class = 0
    /\ scores = {}
    /\ iteration = 0
    /\ strategy_name = algorithm
    /\ fallback_enabled = FALSE
    /\ call_state = "DIRECT"
    /\ call_error = "none"
    /\ metadata = NoMetadata
    /\ last_assignment_info = None
    /\ fallback_runs = 0
    /\ calls = 0
    /\ student_rows = <<>>
    /\ num_students = Cardinality(df.names)
    /\ data_error = NoError
    /\ param_error = "unchecked"
    /\ metrics = <<>>

Next ==
    \/ GreedySeedStep
    \/ GreedyValidateMove
    \/ GreedyValidateClean
    \/ CpSatSolved
    \/ CpSatFailed

Spec == Init /\ [][Next]_vars

\* ------------------------------------------------------- input_validator
\* variant: without the K > N check
ValidateAssignmentParametersNoCountCheck(n, k) ==
    IF k <= 0 THEN "INVALID_CLASS_COUNT"
    ELSE IF n <= 0 THEN "INVALID_STUDENT_COUNT"
    ELSE IF n \div k < 1 THEN "CLASS_SIZE_TOO_SMALL"
    ELSE "OK"

\* validate_assignment_parameters: the code of the error raised, "OK" if none
ValidateAssignmentParameters(n, k) ==
    IF k <= 0 THEN "INVALID_CLASS_COUNT"
    ELSE IF n <= 0 THEN "INVALID_STUDENT_COUNT"
    ELSE IF k > n THEN "TOO_MANY_CLASSES"
    ELSE IF n \div k < 1 THEN "CLASS_SIZE_TOO_SMALL"
    ELSE "OK"

\* A DataFrame handed to validate_student_data: the columns it has and its
\* rows in order.  A friend cell holds 0 for an empty cell ('' or NaN) or a
\* name; the name MaxRows + 1 is carried by no row.  Cells friend1 ..
\* friend<MaxListed> vary, the other friend cells are empty.
required_columns == {"name", "gender", "academicPerformance", "behavioralPerformance"}

StudentRow(i) ==
    [name : {1, i}, friend : [1..FriendSlots -> 0..(MaxRows + 1)]]

RawRows(n) ==
    {r \in [1..n -> UNION {StudentRow(i) : i \in 1..n}] :
        \A i \in 1..n : /\ r[i] \in StudentRow(i)
                        /\ \A c \in (MaxListed + 1)..FriendSlots : r[i].friend[c] = 0}

RawTables(n) ==
    [columns : {required_columns, required_columns \ {"gender"}},
     rows    : RawRows(n)]

\* variant: a row that lists no friend is let through
RowReadLetsThrough(row, has_friends) == NoError

\* "if not has_friends: raise" once the four cells of a row were read
RowRead(row, has_friends) ==
    IF has_friends THEN NoError
    ELSE [code |-> "STUDENT_NO_FRIENDS", studentName |-> row.name, friendName |-> 0]

\* the friend cells of one row, in column order: the first unknown friend
\* raises; a row with no listed friend raises after its cells were read
RECURSIVE ValidateRow(_, _, _, _)
ValidateRow(row, names, c, has_friends) ==
    IF c > FriendSlots
    THEN RowRead(row, has_friends)
    ELSE IF row.friend[c] # 0 /\ row.friend[c] \notin names
    THEN [code |-> "UNKNOWN_FRIEND", studentName |-> row.name,
          friendName |-> row.friend[c]]
    ELSE ValidateRow(row, names, c + 1, has_friends \/ row.friend[c] # 0)

\* _validate_friendship_network: the rows in order, then the isolated nodes
RECURSIVE ValidateFriendshipNetwork(_, _)
ValidateFriendshipNetwork(rows, i) ==
    LET names == {rows[j].name : j \in 1..Len(rows)}
    IN  IF i > Len(rows)
        THEN LET linked == {s \in names : \E j \in 1..Len(rows) : \E c \in 1..FriendSlots :
                               /\ rows[j].friend[c] # 0
                               /\ (rows[j].name = s \/ rows[j].friend[c] = s)}
             IN  IF names \ linked # {}
                 THEN [code |-> "ISOLATED_STUDENTS", studentName |-> 0, friendName |-> 0]
                 ELSE NoError
        ELSE LET r == ValidateRow(rows[i], names, 1, FALSE)
             IN  IF r # NoError THEN r ELSE ValidateFriendshipNetwork(rows, i + 1)

\* validate_student_data: what it raises, NoError if it returns
ValidateStudentData(t) ==
    IF Len(t.rows) = 0
    THEN [code |-> "EMPTY_STUDENT_DATA", studentName |-> 0, friendName |-> 0]
    ELSE IF required_columns \ t.columns # {}
    THEN [code |-> "MISSING_REQUIRED_FIELDS", studentName |-> 0, friendName |-> 0]
    ELSE IF \E i, j \in 1..Len(t.rows) : i # j /\ t.rows[i].name = t.rows[j].name
    THEN [code |-> "DUPLICATE_STUDENT_NAMES", studentName |-> 0, friendName |-> 0]
    ELSE ValidateFriendshipNetwork(t.rows, 1)

\* ---------------------------------------------------- solution_evaluator
\* a name in no row of the table, so not a node of the graph
Stranger == 0

\* G.neighbors(student) raising for a student that is not a node
EvaluatorRaised == [raised |-> "NetworkXError"]

\* variant: the entries carry the 0-based index of the class
CheckHardConstraintsZeroBased(cls) ==
    LET placed == {q \in Nodes \X (1..Len(cls)) : q[1] \in cls[q[2]]}
        times(s) == Cardinality({i \in 1..Len(cls) : s \in cls[i]})
    IN  IF \E i \in 1..Len(cls) : cls[i] \ Nodes # {}
        THEN EvaluatorRaised
        ELSE
        [students_without_friends |->
            {[student |-> q[1], class |-> q[2] - 1] :
                q \in {r \in placed : FriendsInClass(r[1], cls[r[2]]) = 0}},
         not_with_violations |->
            {[student |-> q[1],
              unwanted_classmates |-> {o \in not_with[q[1]] : o \in cls[q[2]]},
              class |-> q[2]] :
                q \in {r \in placed : /\ r[1] \in DOMAIN not_with
                                       /\ \E o \in not_with[r[1]] : o \in cls[r[2]]}},
         unassigned_students |-> {s \in Nodes : \A i \in 1..Len(cls) : s \notin cls[i]},
         multiply_assigned_students |->
            [s \in {t \in Nodes : times(t) > 1} |-> times(s) - 1]]

\* variant: a not-with entry is made only when both students name each
\* other
CheckHardConstraintsMutualOnly(cls) ==
    LET placed == {q \in Nodes \X (1..Len(cls)) : q[1] \in cls[q[2]]}
        times(s) == Cardinality({i \in 1..Len(cls) : s \in cls[i]})
    IN  IF \E i \in 1..Len(cls) : cls[i] \ Nodes # {}
        THEN EvaluatorRaised
        ELSE
        [students_without_friends |->
            {[student |-> q[1], class |-> q[2]] :
                q \in {r \in placed : FriendsInClass(r[1], cls[r[2]]) = 0}},
         not_with_violations |->
            {[student |-> q[1],
              unwanted_classmates |-> {o \in not_with[q[1]] : o \in cls[q[2]]},
              class |-> q[2]] :
                q \in {r \in placed : /\ r[1] \in DOMAIN not_with
                                       /\ \E o \in not_with[r[1]] :
                                            /\ o \in cls[r[2]]
                                            /\ r[1] \in not_with[o]}},
         unassigned_students |-> {s \in Nodes : \A i \in 1..Len(cls) : s \notin cls[i]},
         multiply_assigned_students |->
            [s \in {t \in Nodes : times(t) > 1} |-> times(s) - 1]]

\* _check_hard_constraints.  The lists of records are kept as the sets of
\* their entries (no entry occurs twice); multiply_assigned_students maps a
\* student to the number of times the list holds it.
CheckHardConstraints(cls) ==
    LET placed == {q \in Nodes \X (1..Len(cls)) : q[1] \in cls[q[2]]}
        times(s) == Cardinality({i \in 1..Len(cls) : s \in cls[i]})
    IN  IF \E i \in 1..Len(cls) : cls[i] \ Nodes # {}
        THEN EvaluatorRaised
        ELSE
        [students_without_friends |->
            {[student |-> q[1], class |-> q[2]] :
                q \in {r \in placed : FriendsInClass(r[1], cls[r[2]]) = 0}},
         not_with_violations |->
            {[student |-> q[1],
              unwanted_classmates |-> {o \in not_with[q[1]] : o \in cls[q[2]]},
              class |-> q[2]] :
                q \in {r \in placed : /\ r[1] \in DOMAIN not_with
                                       /\ \E o \in not_with[r[1]] : o \in cls[r[2]]}},
         unassigned_students |-> {s \in Nodes : \A i \in 1..Len(cls) : s \notin cls[i]},
         multiply_assigned_students |->
            [s \in {t \in Nodes : times(t) > 1} |-> times(s) - 1]]

RECURSIVE Factorial(_)
Factorial(n) == IF n <= 1 THEN 1 ELSE n * Factorial(n - 1)

\* sum of f[i] over the class indices in I
RECURSIVE SumClasses(_, _)
SumClasses(I, f) ==
    IF I = {} THEN 0
    ELSE LET i == CHOOSE j \in I : TRUE IN f[i] + SumClasses(I \ {i}, f)

\* _evaluate_friendships: the two counters behind friendship_satisfaction_rate
EvaluateFriendships(cls) ==
    LET I == 1..Len(cls)
    IN  [total_satisfied_friendships |->
            SumClasses(I, [i \in I |->
                SumOver(cls[i], [s \in cls[i] |-> FriendsInClass(s, cls[i])])]),
         total_possible_friendships |->
            SumClasses(I, [i \in I |->
                SumOver(cls[i], [s \in cls[i] |-> Cardinality(Neighbors(s))])])]

\* _evaluate_size_balance: size_variance (max - min, 0 for no classes)
EvaluateSizeBalance(cls) ==
    IF Len(cls) = 0 THEN 0 ELSE MaxSize(cls) - MinSize(cls)

\* The averaged deviations are fractions over the class sizes and the number
\* of non-empty classes; ScoreUnit(cls) is a common denominator of them all.
ScoreUnit(cls) == 2 * Factorial(Cardinality(Nodes)) * Factorial(Len(cls))

NonEmptyClasses(cls) == {i \in 1..Len(cls) : cls[i] # {}}

\* average_gender_deviation * ScoreUnit: mean of |0.5 - males/total|
EvaluateGenderBalance(cls) ==
    LET I == NonEmptyClasses(cls)
    IN  IF I = {} THEN 0
        ELSE SumClasses(I, [i \in I |->
                LET st == CalculateClassStats(cls[i])
                IN  AbsInt(st.size - 2 * st.males)
                    * (ScoreUnit(cls) \div (2 * st.size * Cardinality(I)))])

\* average_<type>_deviation * ScoreUnit: mean of |average_score - 2.0|
EvaluatePerformanceBalance(cls, performance_type) ==
    LET I == NonEmptyClasses(cls)
    IN  IF I = {} THEN 0
        ELSE SumClasses(I, [i \in I |->
                LET st == CalculateClassStats(cls[i])
                    total == IF performance_type = "academic" THEN st.academic
                             ELSE st.behavioral
                IN  AbsInt(total - 2 * st.size)
                    * (ScoreUnit(cls) \div (st.size * Cardinality(I)))])

\* the score before the final max(0, min(100, score)), as the fraction
\* num/den with den = ScoreUnit * total_possible_friendships (or ScoreUnit)
RawScore(cls, v) ==
    LET f == EvaluateFriendships(cls)
        T == IF f.total_possible_friendships > 0
             THEN f.total_possible_friendships ELSE 1
        U == ScoreUnit(cls)
        multiply == SumOver(DOMAIN v.multiply_assigned_students,
                            v.multiply_assigned_students)
        penalties == 20 * Cardinality(v.students_without_friends)
                     + 25 * Cardinality(v.not_with_violations)
                     + 30 * Cardinality(v.unassigned_students)
                     + 30 * multiply
                     + 2 * EvaluateSizeBalance(cls)
    IN  [num |-> (100 - penalties) * U * T
                 - (10 * EvaluateGenderBalance(cls)
                    + 5 * EvaluatePerformanceBalance(cls, "academic")
                    + 5 * EvaluatePerformanceBalance(cls, "behavioral")) * T
                 + (IF f.total_possible_friendships > 0
                    THEN 10 * f.total_satisfied_friendships * U ELSE 0),
         den |-> U * T]

\* variant: the score without the final clamp
CalculateOverallScoreUnclamped(cls, v) == RawScore(cls, v)

\* _calculate_overall_score: max(0, min(100, score))
CalculateOverallScore(cls, v) ==
    LET r == RawScore(cls, v)
    IN  [num |-> IF r.num < 0 THEN 0
                 ELSE IF r.num > 100 * r.den THEN 100 * r.den ELSE r.num,
         den |-> r.den]

\* evaluate_solution: the metrics record, or the exception it raised
EvaluateSolution(cls) ==
    LET v == CheckHardConstraints(cls)
    IN  IF v = EvaluatorRaised THEN v
        ELSE v @@ EvaluateFriendships(cls)
               @@ [size_variance |-> EvaluateSizeBalance(cls),
                   overall_score |-> CalculateOverallScore(cls, v)]

\* ------------------------------------------- class_assignment_service
\* The coordinator of spec section 4.6 (ClassAssignmentService with a
\* strategy, a timeout and the fallback flag), as the spec and the tests in
\* tests/integration describe it.

\* the DataFrames of TestStrategyFallback.setUp, of test_mutual_not_with and
\* of test_two_students_two_classes
ServiceTables ==
    { [names   |-> 1..4,
       friend  |-> <<{2, 3}, {1, 4}, {4, 1}, {3, 2}>>,
       notWith |-> <<{}, {}, {}, {}>>,
       attrs   |-> [s \in 1..4 |-> [gender     |-> FixtureGender[s],
                                    academic   |-> FixtureAcademic[s],
                                    behavioral |-> FixtureBehavioral[s]]]],
      [names   |-> 1..4,
       friend  |-> <<{3}, {4}, {1}, {2}>>,
       notWith |-> <<{2}, {1}, {}, {}>>,
       attrs   |-> [s \in 1..4 |-> [gender     |-> FixtureGender[s],
                                    academic   |-> FixtureAcademic[s],
                                    behavioral |-> FixtureBehavioral[s]]]],
      [names   |-> 1..2,
       friend  |-> <<{2}, {1}>>,
       notWith |-> <<{}, {}>>,
       attrs   |-> <<[gender |-> "FEMALE", academic |-> "HIGH", behavioral |-> "HIGH"],
                     [gender |-> "MALE", academic |-> "MEDIUM", behavioral |-> "MEDIUM"]>>] }

TerminalStates == {"DONE", "DONE_FALLBACK", "FAIL"}

\* variant: entering a call clears the recorded result
ServiceAssignClearsInfo ==
    /\ call_state \in TerminalStates \cup {"IDLE"}
    /\ calls < MaxCalls
    /\ \E k \in 0..(Cardinality(df.names) + 1) :
        LET code == ValidateAssignmentParameters(Cardinality(df.names), k)
        IN  /\ num_classes' = k
            /\ IF code # "OK"
               THEN /\ call_state' = "FAIL"
                    /\ call_error' = code
                    /\ pc' = "idle"
                    /\ classes' = <<>>
                    /\ unassigned_students' = {}
               ELSE /\ call_state' = "RUN_STRATEGY"
                    /\ call_error' = "none"
                    /\ pc' = IF strategy_name = "greedy" THEN "seeding" ELSE "solving"
                    /\ classes' = EmptyClasses(k)
                    /\ unassigned_students' =
                          IF strategy_name = "greedy" THEN Nodes ELSE {}
    /\ algorithm' = strategy_name
    /\ calls' = calls + 1
    /\ fallback_runs' = 0
    /\ metadata' = NoMetadata
    /\ moved' = 0
    /\ solver_status' = "NONE"
    /\ error' = "none"
    /\ last_assignment_info' = None
    /\ UNCHANGED <<df, G, not_with, strategy_name, fallback_enabled>>
    /\ UNCHANGED function_vars
    /\ UNCHANGED loop_vars

\* assign_classes(K) entered: START -> VALIDATE_PARAMS -> RUN_STRATEGY | FAIL
ServiceAssign ==
    /\ call_state \in TerminalStates \cup {"IDLE"}
    /\ calls < MaxCalls
    /\ \E k \in 0..(Cardinality(df.names) + 1) :
        LET code == ValidateAssignmentParameters(Cardinality(df.names), k)
        IN  /\ num_classes' = k
            /\ IF code # "OK"
               THEN /\ call_state' = "FAIL"
                    /\ call_error' = code
                    /\ pc' = "idle"
                    /\ classes' = <<>>
                    /\ unassigned_students' = {}
               ELSE /\ call_state' = "RUN_STRATEGY"
                    /\ call_error' = "none"
                    /\ pc' = IF strategy_name = "greedy" THEN "seeding" ELSE "solving"
                    /\ classes' = EmptyClasses(k)
                    /\ unassigned_students' =
                          IF strategy_name = "greedy" THEN Nodes ELSE {}
    /\ algorithm' = strategy_name
    /\ calls' = calls + 1
    /\ fallback_runs' = 0
    /\ metadata' = NoMetadata
    /\ moved' = 0
    /\ solver_status' = "NONE"
    /\ error' = "none"
    /\ UNCHANGED <<df, G, not_with, strategy_name, fallback_enabled,
                   last_assignment_info>>
    /\ UNCHANGED function_vars
    /\ UNCHANGED loop_vars

\* the configured strategy's assign_classes raising on entry (the tests
\* patch service.strategy.assign_classes with side_effect=RuntimeError)
StrategyRaises ==
    /\ call_state = "RUN_STRATEGY"
    /\ pc \in {"seeding", "solving"}
    /\ classes = EmptyClasses(num_classes)
    /\ pc' = "raised"
    /\ error' = "RuntimeError"
    /\ UNCHANGED <<df, G, not_with, algorithm, num_classes, classes,
                   unassigned_students, solver_status, moved>>
    /\ UNCHANGED service_vars
    /\ UNCHANGED function_vars
    /\ UNCHANGED loop_vars

\* variant: a failed call leaves the strategy's classes in place
ServiceStrategyFailedKeepsClasses ==
    /\ call_state = "RUN_STRATEGY"
    /\ pc = "raised"
    /\ IF strategy_name = "cp_sat" /\ fallback_enabled
       THEN /\ call_state' = "RUN_GREEDY"
            /\ algorithm' = "greedy"
            /\ pc' = "seeding"
            /\ classes' = EmptyClasses(num_classes)
            /\ unassigned_students' = Nodes
            /\ fallback_runs' = fallback_runs + 1
            /\ call_error' = call_error
       ELSE /\ call_state' = "FAIL"
            /\ call_error' = error
            /\ pc' = "idle"
            /\ UNCHANGED <<classes, algorithm, unassigned_students, fallback_runs>>
    /\ UNCHANGED <<df, G, not_with, num_classes, solver_status, moved, error,
                   strategy_name, fallback_enabled, metadata,
                   last_assignment_info, calls>>
    /\ UNCHANGED function_vars
    /\ UNCHANGED loop_vars

\* variant: falls back to greedy whenever fallback is enabled, whatever the
\* configured strategy
ServiceStrategyFailedAnyStrategy ==
    /\ call_state = "RUN_STRATEGY"
    /\ pc = "raised"
    /\ IF fallback_enabled
       THEN /\ call_state' = "RUN_GREEDY"
            /\ algorithm' = "greedy"
            /\ pc' = "seeding"
            /\ classes' = EmptyClasses(num_classes)
            /\ unassigned_students' = Nodes
            /\ fallback_runs' = fallback_runs + 1
            /\ call_error' = call_error
       ELSE /\ call_state' = "FAIL"
            /\ call_error' = error
            /\ pc' = "idle"
            /\ classes' = <<>>
            /\ UNCHANGED <<algorithm, unassigned_students, fallback_runs>>
    /\ UNCHANGED <<df, G, not_with, num_classes, solver_status, moved, error,
                   strategy_name, fallback_enabled, metadata,
                   last_assignment_info, calls>>
    /\ UNCHANGED function_vars
    /\ UNCHANGED loop_vars

\* RUN_STRATEGY --err--> RUN_GREEDY (cp_sat with fallback) | FAIL
ServiceStrategyFailed ==
    /\ call_state = "RUN_STRATEGY"
    /\ pc = "raised"
    /\ IF strategy_name = "cp_sat" /\ fallback_enabled
       THEN /\ call_state' = "RUN_GREEDY"
            /\ algorithm' = "greedy"
            /\ pc' = "seeding"
            /\ classes' = EmptyClasses(num_classes)
            /\ unassigned_students' = Nodes
            /\ fallback_runs' = fallback_runs + 1
            /\ call_error' = call_error
       ELSE /\ call_state' = "FAIL"
            /\ call_error' = error
            /\ pc' = "idle"
            /\ classes' = <<>>
            /\ UNCHANGED <<algorithm, unassigned_students, fallback_runs>>
    /\ UNCHANGED <<df, G, not_with, num_classes, solver_status, moved, error,
                   strategy_name, fallback_enabled, metadata,
                   last_assignment_info, calls>>
    /\ UNCHANGED function_vars
    /\ UNCHANGED loop_vars

\* variant: records the fallback result without the fallback marks
ServiceEvaluateUnmarked ==
    /\ call_state \in {"RUN_STRATEGY", "RUN_GREEDY"}
    /\ pc = "returned"
    /\ LET fallback == call_state = "RUN_GREEDY"
           m == [algorithm         |-> algorithm,
                 num_classes       |-> num_classes,
                 num_students      |-> Cardinality(Nodes),
                 fallback_used     |-> FALSE,
                 original_strategy |-> "none",
                 fallback_reason   |-> "",
                 evaluation        |-> CheckHardConstraints(classes)]
       IN  /\ metadata' = m
           /\ last_assignment_info' = [strategy_used |-> algorithm, metadata |-> m]
           /\ call_state' = IF fallback THEN "DONE_FALLBACK" ELSE "DONE"
    /\ pc' = "idle"
    /\ UNCHANGED <<df, G, not_with, algorithm, num_classes, classes,
                   unassigned_students, solver_status, moved, error,
                   strategy_name, fallback_enabled, call_error, fallback_runs, calls>>
    /\ UNCHANGED function_vars
    /\ UNCHANGED loop_vars

\* RUN_STRATEGY | RUN_GREEDY --ok--> EVALUATE -> DONE | DONE(fallback):
\* evaluate the classes, attach the evaluation, record the last result
ServiceEvaluate ==
    /\ call_state \in {"RUN_STRATEGY", "RUN_GREEDY"}
    /\ pc = "returned"
    /\ LET fallback == call_state = "RUN_GREEDY"
           m == [algorithm         |-> algorithm,
                 num_classes       |-> num_classes,
                 num_students      |-> Cardinality(Nodes),
                 fallback_used     |-> fallback,
                 original_strategy |-> IF fallback THEN "cp_sat" ELSE "none",
                 fallback_reason   |-> IF fallback THEN error ELSE "",
                 evaluation        |-> CheckHardConstraints(classes)]
       IN  /\ metadata' = m
           /\ last_assignment_info' = [strategy_used |-> algorithm, metadata |-> m]
           /\ call_state' = IF fallback THEN "DONE_FALLBACK" ELSE "DONE"
    /\ pc' = "idle"
    /\ UNCHANGED <<df, G, not_with, algorithm, num_classes, classes,
                   unassigned_students, solver_status, moved, error,
                   strategy_name, fallback_enabled, call_error, fallback_runs, calls>>
    /\ UNCHANGED function_vars
    /\ UNCHANGED loop_vars

\* a service constructed over a validated table; no call made yet
ServiceInit ==
    /\ df \in ServiceTables
    /\ G = BuildFriendshipGraph(df)
    /\ not_with = BuildNotWithDict(df)
    /\ strategy_name \in {"greedy", "cp_sat"}
    /\ fallback_enabled \in BOOLEAN
    /\ algorithm = strategy_name
    /\ num_classes = 0
    /\ pc = "idle"
    /\ classes = <<>>
    /\ unassigned_students = {}
    /\ solver_status = "NONE"
    /\ moved = 0
    /\ error = "none"
    /\ seeded = 0
    /\ best_class = 0
    /\ scores = {}
    /\ iteration = 0
    /\ call_state = "IDLE"
    /\ call_error = "none"
    /\ metadata = NoMetadata
    /\ last_assignment_info = None
    /\ fallback_runs = 0
    /\ calls = 0
    /\ student_rows = <<>>
    /\ num_students = Cardinality(df.names)
    /\ data_error = NoError
    /\ param_error = "unchecked"
    /\ metrics = <<>>

ServiceNext ==
    \/ ServiceAssign
    \/ StrategyRaises
    \/ GreedySeedStep
    \/ GreedyValidateMove
    \/ GreedyValidateClean
    \/ CpSatSolved
    \/ CpSatFailed
    \/ ServiceStrategyFailed
    \/ ServiceEvaluate

SpecService == ServiceInit /\ [][ServiceNext]_vars

\* ------------------------------------- greedy runs and balancer calls
\* every placement of a table's students into k classes
PlacedClasses(names, k) ==
    {[i \in 1..k |-> {s \in names : f[s] = i}] : f \in [names -> 1..k]}

\* a table of CrowdSize students, each naming the next one as friend
CrowdTable ==
    [names   |-> 1..CrowdSize,
     friend  |-> [s \in 1..CrowdSize |-> {(s % CrowdSize) + 1}],
     notWith |-> [s \in 1..CrowdSize |-> {}],
     attrs   |-> [s \in 1..CrowdSize |->
                    [gender     |-> FixtureGender[((s - 1) % 6) + 1],
                     academic   |-> FixtureAcademic[((s - 1) % 6) + 1],
                     behavioral |-> FixtureBehavioral[((s - 1) % 6) + 1]]]]

\* _balance_classes(classes, True) entered on a class list: any placement of
\* a small table, or the crowd in the first class of two but for a few
BalancerInit ==
    /\ \/ /\ df \in ServiceTables
          /\ num_classes \in 1..MaxBalanceClasses
          /\ classes \in PlacedClasses(df.names, num_classes)
       \/ /\ df = CrowdTable
          /\ num_classes = 2
          /\ \E seated \in SUBSET (1..MaxSeated) :
                classes = <<df.names \ seated, seated>>
    /\ G = BuildFriendshipGraph(df)
    /\ not_with = BuildNotWithDict(df)
    /\ algorithm = "greedy"
    /\ pc = "balancing"
    /\ unassigned_students = {}
    /\ solver_status = "NONE"
    /\ moved = 0
    /\ error = "none"
    /\ seeded = 0
    /\ best_class = 0
    /\ scores = {}
    /\ iteration = 0
    /\ strategy_name = "greedy"
    /\ fallback_enabled = FALSE
    /\ call_state = "DIRECT"
    /\ call_error = "none"
    /\ metadata = NoMetadata
    /\ last_assignment_info = None
    /\ fallback_runs = 0
    /\ calls = 0
    /\ student_rows = <<>>
    /\ num_students = Cardinality(df.names)
    /\ data_error = NoError
    /\ param_error = "unchecked"
    /\ metrics = <<>>

GreedyInit ==
    \/ Init /\ algorithm = "greedy"
    \/ BalancerInit

GreedyNext ==
    \/ GreedySeedStep
    \/ GreedyValidateMove
    \/ GreedyValidateClean
    \/ BalanceIteration
    \/ BalanceReturn

SpecGreedy == GreedyInit /\ [][GreedyNext]_vars

\* ------------------------------------------- CP-SAT runs on test tables
\* sample_df of TestCPSATStrategy.setUp
SampleTable ==
    [names   |-> 1..6,
     friend  |-> <<{2, 3}, {1, 4}, {4, 1}, {3, 2}, {6}, {5}>>,
     notWith |-> <<{}, {}, {5}, {}, {3}, {}>>,
     attrs   |-> [s \in 1..6 |-> [gender     |-> FixtureGender[s],
                                  academic   |-> FixtureAcademic[s],
                                  behavioral |-> FixtureBehavioral[s]]]]

\* a CPSATStrategy constructed over a table and asked for 1..K classes
CpSatInit ==
    /\ df \in ServiceTables \cup ValidTables(3) \cup {SampleTable}
    /\ num_classes \in 1..MaxCpSatClasses
    /\ num_classes <= Cardinality(df.names)
    /\ G = BuildFriendshipGraph(df)
    /\ not_with = BuildNotWithDict(df)
    /\ algorithm = "cp_sat"
    /\ pc = "solving"
    /\ classes = EmptyClasses(num_classes)
    /\ unassigned_students = {}
    /\ solver_status = "NONE"
    /\ moved = 0
    /\ error = "none"
    /\ seeded = 0
    /\ best_class = 0
    /\ scores = {}
    /\ iteration = 0
    /\ strategy_name = "cp_sat"
    /\ fallback_enabled = FALSE
    /\ call_state = "DIRECT"
    /\ call_error = "none"
    /\ metadata = NoMetadata
    /\ last_assignment_info = None
    /\ fallback_runs = 0
    /\ calls = 0
    /\ student_rows = <<>>
    /\ num_students = Cardinality(df.names)
    /\ data_error = NoError
    /\ param_error = "unchecked"
    /\ metrics = <<>>

CpSatNext ==
    \/ CpSatSolved
    \/ CpSatFailed

SpecCpSat == CpSatInit /\ [][CpSatNext]_vars

\* ---------------------------------------------------- validator calls
\* no strategy object and no service: the validators are static methods
NoTable == [names |-> {}, friend |-> <<>>, notWith |-> <<>>, attrs |-> <<>>]

NoStrategy ==
    /\ df = NoTable
    /\ G = <<>>
    /\ not_with = <<>>
    /\ algorithm = "none"
    /\ pc = "idle"
    /\ classes = <<>>
    /\ unassigned_students = {}
    /\ solver_status = "NONE"
    /\ moved = 0
    /\ error = "none"
    /\ seeded = 0
    /\ best_class = 0
    /\ scores = {}
    /\ iteration = 0

NoService ==
    /\ strategy_name = "none"
    /\ fallback_enabled = FALSE
    /\ call_state = "DIRECT"
    /\ call_error = "none"
    /\ metadata = NoMetadata
    /\ last_assignment_info = None
    /\ fallback_runs = 0
    /\ calls = 0

\* InputValidator.validate_student_data(df) called on a table
ValidateStudentDataCall ==
    /\ data_error = None
    /\ data_error' = ValidateStudentData(student_rows)
    /\ UNCHANGED <<student_rows, num_students, param_error, metrics>>
    /\ UNCHANGED strategy_vars
    /\ UNCHANGED service_vars
    /\ UNCHANGED loop_vars

ValidatorInit ==
    /\ NoStrategy
    /\ NoService
    /\ num_classes = 0
    /\ \E n \in 0..MaxRows : student_rows \in RawTables(n)
    /\ num_students = Len(student_rows.rows)
    /\ data_error = None
    /\ param_error = "unchecked"
    /\ metrics = <<>>

SpecValidator == ValidatorInit /\ [][ValidateStudentDataCall]_vars

\* InputValidator.validate_assignment_parameters(num_students, num_classes)
ValidateAssignmentParametersCall ==
    /\ param_error = "unchecked"
    /\ param_error' = ValidateAssignmentParameters(num_students, num_classes)
    /\ UNCHANGED <<student_rows, num_students, data_error, metrics>>
    /\ UNCHANGED strategy_vars
    /\ UNCHANGED service_vars
    /\ UNCHANGED loop_vars

ParametersInit ==
    /\ NoStrategy
    /\ NoService
    /\ num_classes \in (0 - MaxParam)..MaxParam
    /\ num_students \in (0 - MaxParam)..MaxParam
    /\ student_rows = <<>>
    /\ data_error = None
    /\ param_error = "unchecked"
    /\ metrics = <<>>

SpecParameters == ParametersInit /\ [][ValidateAssignmentParametersCall]_vars

\* ---------------------------------------------------- evaluator calls
\* class lists built by hand over the students of the table and one name
\* that is not in it
HandBuiltClasses(names) ==
    UNION {[1..k -> SUBSET (names \cup {Stranger})] : k \in 0..MaxEvalClasses}

\* variant: the evaluation drops repeated students from the class sets it
\* was handed
EvaluateSolutionCallInPlace ==
    /\ Len(metrics) < MaxEvaluations
    /\ metrics' = Append(metrics, EvaluateSolution(classes))
    /\ classes' = [i \in 1..Len(classes) |->
                      classes[i] \ UNION {classes[j] : j \in 1..(i - 1)}]
    /\ UNCHANGED <<df, G, not_with, algorithm, num_classes, pc,
                   unassigned_students, solver_status, moved, error>>
    /\ UNCHANGED <<student_rows, num_students, data_error, param_error>>
    /\ UNCHANGED service_vars
    /\ UNCHANGED loop_vars

\* SolutionEvaluator(G, not_with).evaluate_solution(classes)
EvaluateSolutionCall ==
    /\ Len(metrics) < MaxEvaluations
    /\ metrics' = Append(metrics, EvaluateSolution(classes))
    /\ UNCHANGED <<student_rows, num_students, data_error, param_error>>
    /\ UNCHANGED strategy_vars
    /\ UNCHANGED service_vars
    /\ UNCHANGED loop_vars

EvaluatorInit ==
    /\ df \in ServiceTables \cup ValidTables(2)
    /\ G = BuildFriendshipGraph(df)
    /\ not_with = BuildNotWithDict(df)
    /\ classes \in HandBuiltClasses(df.names)
    /\ num_classes = Len(classes)
    /\ algorithm = "none"
    /\ pc = "idle"
    /\ unassigned_students = {}
    /\ solver_status = "NONE"
    /\ moved = 0
    /\ error = "none"
    /\ seeded = 0
    /\ best_class = 0
    /\ scores = {}
    /\ iteration = 0
    /\ NoService
    /\ student_rows = <<>>
    /\ num_students = Cardinality(df.names)
    /\ data_error = NoError
    /\ param_error = "unchecked"
    /\ metrics = <<>>

SpecEvaluator == EvaluatorInit /\ [][EvaluateSolutionCall]_vars

\* ------------------------------------------------------------------ claims
ClassOf(s) == {i \in 1..Len(classes) : s \in classes[i]}

HasFriendInOwnClass(s) ==
    \E i \in ClassOf(s) : \E f \in Neighbors(s) : f \in classes[i]

\* the students placed in a class that holds none of their friends
FriendlessIn(cls) ==
    {s \in Nodes : \E i \in 1..Len(cls) : s \in cls[i] /\ FriendsInClass(s, cls[i]) = 0}

\* a declares b, or b declares a, in the notWith column
Forbidden(a, b) == b \in df.notWith[a] \/ a \in df.notWith[b]

ForbiddenPairTogether ==
    \E i \in 1..Len(classes) : \E a, b \in classes[i] : a # b /\ Forbidden(a, b)

\* some partition of the students into num_classes non-empty classes keeps
\* every forbidden pair apart
SeparatingPartitionExists ==
    \E f \in [df.names -> 1..num_classes] :
        /\ \A c \in 1..num_classes : \E s \in df.names : f[s] = c
        /\ \A a, b \in df.names : (a # b /\ Forbidden(a, b)) => f[a] # f[b]

\* C1: what a strategy returns is exactly K sets and every student of the
\* table is in exactly one of them; while the greedy strategy is still
\* seeding and rebalancing, a student is in no set while unassigned and in
\* exactly one set afterwards.
C1_Partition ==
    /\ Len(classes) = num_classes
    /\ \A i \in 1..Len(classes) : classes[i] \subseteq df.names
    /\ pc = "returned" => \A s \in df.names : Cardinality(ClassOf(s)) = 1
    /\ algorithm = "greedy" =>
          \A s \in df.names :
              Cardinality(ClassOf(s)) = (IF s \in unassigned_students THEN 0 ELSE 1)

C1_Witness ==
    /\ algorithm = "greedy"
    /\ pc = "returned"
    /\ moved # 0
    /\ num_classes >= 2
    /\ Cardinality(df.names) >= 4

\* C2: after a successful CP-SAT run every student shares a class with at
\* least one graph neighbour.
C2_CpSatFriendship ==
    (algorithm = "cp_sat" /\ pc = "returned") =>
        /\ solver_status \in {"OPTIMAL", "FEASIBLE"}
        /\ \A s \in df.names : HasFriendInOwnClass(s)

C2_Witness ==
    /\ algorithm = "cp_sat"
    /\ pc = "returned"
    /\ num_classes >= 2
    /\ \E s \in df.names : \E f \in Neighbors(s) : ClassOf(f) # ClassOf(s)

\* C3: after a successful CP-SAT run no class holds a and b when either of
\* them names the other in notWith, also when only one of them does.
C3_CpSatSeparation ==
    (algorithm = "cp_sat" /\ pc = "returned") => ~ForbiddenPairTogether

C3_Witness ==
    /\ algorithm = "cp_sat"
    /\ pc = "returned"
    /\ \E a, b \in df.names :
          /\ a < b
          /\ a \in df.notWith[b]
          /\ b \notin df.notWith[a]
          /\ b \in Neighbors(a)

\* C4: when a partition separating all forbidden pairs exists, the classes
\* the greedy strategy returns hold no forbidden pair.
C4_GreedySeparation ==
    (algorithm = "greedy" /\ pc = "returned" /\ SeparatingPartitionExists) =>
        ~ForbiddenPairTogether

\* C5: the classes the greedy strategy returns differ in size by at most 2.
C5_GreedySizeSpread ==
    (algorithm = "greedy" /\ pc = "returned") =>
        MaxSize(classes) - MinSize(classes) <= 2

\* C6: after a successful CP-SAT run every class size lies in
\* [max(1, floor(N/K) - 1), floor(N/K) + 2], so no class is empty.
C6_CpSatClassSizes ==
    (algorithm = "cp_sat" /\ pc = "returned") =>
        LET t  == Cardinality(df.names) \div num_classes
            lo == IF t - 1 >= 1 THEN t - 1 ELSE 1
        IN  \A i \in 1..Len(classes) :
                /\ Cardinality(classes[i]) >= lo
                /\ Cardinality(classes[i]) <= t + 2
                /\ classes[i] # {}

C6_Witness ==
    /\ algorithm = "cp_sat"
    /\ pc = "returned"
    /\ num_classes >= 2
    /\ Cardinality(df.names) \div num_classes >= 2

\* C7: no class the greedy strategy returns is empty (1 <= K <= N).
C7_GreedyNoEmptyClass ==
    (algorithm = "greedy" /\ pc = "returned") =>
        \A i \in 1..Len(classes) : classes[i] # {}

CompletedStates == {"DONE", "DONE_FALLBACK"}

StrategyRunning == pc \in {"seeding", "validate", "solving", "returned", "raised"}

\* the work left in the running call: the stage of the call, then the
\* position of the strategy, then the students still to seed
CallMeasure ==
    (CASE call_state = "RUN_STRATEGY" -> 2 * (Cardinality(Nodes) + 4)
       [] call_state = "RUN_GREEDY"   -> Cardinality(Nodes) + 4
       [] OTHER                       -> 0)
    + (CASE pc = "seeding"  -> 3 + Cardinality(unassigned_students)
         [] pc = "solving"  -> 3
         [] pc = "validate" -> 2
         [] pc = "returned" -> 1
         [] pc = "raised"   -> 1
         [] OTHER           -> 0)

\* some step of the running call is possible; the seeding loop can step when
\* its min() has a student to pick
CallCanStep ==
    CASE pc = "seeding"  -> /\ algorithm = "greedy"
                            /\ SeedCandidates(unassigned_students) # {}
      [] pc = "validate" -> ENABLED (GreedyValidateMove \/ GreedyValidateClean)
      [] pc = "solving"  -> ENABLED (CpSatSolved \/ CpSatFailed)
      [] pc = "returned" -> ENABLED ServiceEvaluate
      [] pc = "raised"   -> ENABLED ServiceStrategyFailed
      [] OTHER           -> FALSE

ListsNoFriend(row) == \A c \in 1..FriendSlots : row.friend[c] = 0

ListsUnknownFriend(row, rows) ==
    \E c \in 1..FriendSlots :
        /\ row.friend[c] # 0
        /\ row.friend[c] \notin {rows[j].name : j \in 1..Len(rows)}

\* C13: for a table that passes the first three checks and in which one
\* student lists no friend at all and another student names a friend that is
\* not in the table, validate_student_data reports STUDENT_NO_FRIENDS,
\* whatever the order of the two rows.
C13_NoFriendsReportedFirst ==
    (/\ data_error # None
     /\ data_error.code \notin {"EMPTY_STUDENT_DATA", "MISSING_REQUIRED_FIELDS",
                               "DUPLICATE_STUDENT_NAMES"}
     /\ \E i, j \in 1..Len(student_rows.rows) :
           /\ i # j
           /\ ListsNoFriend(student_rows.rows[i])
           /\ ListsUnknownFriend(student_rows.rows[j], student_rows.rows))
        => data_error.code = "STUDENT_NO_FRIENDS"

\* C14: validate_assignment_parameters accepts exactly when 1 <= K <= N;
\* otherwise it raises INVALID_CLASS_COUNT if K <= 0, else
\* INVALID_STUDENT_COUNT if N <= 0, else TOO_MANY_CLASSES (then K > N);
\* CLASS_SIZE_TOO_SMALL is never raised.
C14_ParameterValidation ==
    param_error # "unchecked" =>
        /\ param_error = "OK" <=> (1 <= num_classes /\ num_classes <= num_students)
        /\ param_error = "INVALID_CLASS_COUNT" <=> num_classes <= 0
        /\ param_error = "INVALID_STUDENT_COUNT" <=>
              (num_classes > 0 /\ num_students <= 0)
        /\ param_error = "TOO_MANY_CLASSES" <=>
              (num_classes > 0 /\ num_students > 0 /\ num_classes > num_students)
        /\ param_error # "CLASS_SIZE_TOO_SMALL"

C14_Witness ==
    /\ param_error = "TOO_MANY_CLASSES"
    /\ num_students = 1
    /\ num_classes = 2

\* C15: for class lists over the graph's students, however many are
\* unassigned, multiply assigned, friendless or with an unwanted classmate,
\* and for the empty list, the overall_score lies in [0, 100].
C15_ScoreBounds ==
    \A e \in 1..Len(metrics) :
        metrics[e] # EvaluatorRaised =>
            /\ metrics[e].overall_score.den > 0
            /\ 0 <= metrics[e].overall_score.num
            /\ metrics[e].overall_score.num <= 100 * metrics[e].overall_score.den

C15_Witness ==
    /\ Len(metrics) > 0
    /\ metrics[1] # EvaluatorRaised
    /\ metrics[1].unassigned_students # {}
    /\ DOMAIN metrics[1].multiply_assigned_students # {}
    /\ metrics[1].students_without_friends # {}
    /\ metrics[1].not_with_violations # {}
    /\ metrics[1].overall_score.num = 0

\* the placements <<student, class index>> of the class list
Placements == {q \in (Nodes \cup {Stranger}) \X (1..Len(classes)) : q[1] \in classes[q[2]]}

NoNeighbourInClass(s, i) == \A f \in G[s] : f \notin classes[i]

\* C16 as stated: with k students who have no graph neighbour in a class
\* they are placed in, students_without_friends has exactly k entries.
C16_OneEntryPerStudent ==
    \A e \in 1..Len(metrics) :
        metrics[e] # EvaluatorRaised =>
            Cardinality(metrics[e].students_without_friends)
              = Cardinality({s \in Nodes : \E i \in 1..Len(classes) :
                                /\ s \in classes[i]
                                /\ NoNeighbourInClass(s, i)})

\* C16 as the evaluator does it: students_without_friends has one entry per
\* placement of a student in a class where the student has no graph
\* neighbour, carrying the 1-based index of that class; when no student is
\* placed twice, that is one entry per friendless student.
C16_OneEntryPerPlacement ==
    \A e \in 1..Len(metrics) :
        metrics[e] # EvaluatorRaised =>
            LET swf == metrics[e].students_without_friends
            IN  /\ \A q \in Placements :
                      ([student |-> q[1], class |-> q[2]] \in swf)
                          <=> NoNeighbourInClass(q[1], q[2])
                /\ \A r \in swf : <<r.student, r.class>> \in Placements
                /\ (\A s \in Nodes : Cardinality({i \in 1..Len(classes) : s \in classes[i]}) <= 1)
                      => Cardinality(swf)
                           = Cardinality({s \in Nodes : \E i \in 1..Len(classes) :
                                             /\ s \in classes[i]
                                             /\ NoNeighbourInClass(s, i)})

C16_Witness ==
    /\ Len(metrics) > 0
    /\ metrics[1] # EvaluatorRaised
    /\ Cardinality(metrics[1].students_without_friends) = 2
    /\ \E r \in metrics[1].students_without_friends : r.class = 2
    /\ DOMAIN metrics[1].multiply_assigned_students = {}

\* C17: evaluate_solution returns a metrics record for every class list,
\* also one holding a name that is not a node of the graph.
C17_EvaluatorNeverRaises ==
    \A e \in 1..Len(metrics) : metrics[e] # EvaluatorRaised

MinName(S) == CHOOSE s \in S : \A t \in S : s <= t

\* the seeding loop with every tie of min() resolved by name ascending
RECURSIVE SeedByName(_, _)
SeedByName(cls, unassigned) ==
    IF unassigned = {} THEN cls
    ELSE LET student == MinName(SeedCandidates(unassigned))
             best == FindBestClass(student, cls, num_classes)
             r == AssignStudentGroup(student, unassigned, cls, best)
             balanced == IF MaxSize(r.classes) - MinSize(r.classes) > 1
                         THEN BalanceClasses(r.classes, TRUE)
                         ELSE r.classes
         IN  SeedByName(balanced, r.unassigned)

\* the repair with the friendless student taken by name ascending
ValidateByName(cls) ==
    LET i == FirstFriendlessClass(cls)
    IN  IF i = 0 THEN cls
        ELSE LET student == MinName({s \in cls[i] : FriendsInClass(s, cls[i]) = 0})
                 j == RepairClass(student, cls)
             IN  IF j = 0 THEN cls
                 ELSE [[cls EXCEPT ![i] = @ \ {student}] EXCEPT ![j] = @ \cup {student}]

\* C18: the classes the greedy strategy returns are a function of the table
\* and K: the ones reached by resolving every seeding tie by name ascending.
C18_GreedyDeterministic ==
    (algorithm = "greedy" /\ pc = "returned") =>
        classes = ValidateByName(SeedByName(EmptyClasses(num_classes), Nodes))

\* C19: the CP-SAT strategy returns classes only with solver status OPTIMAL
\* or FEASIBLE, and then they satisfy the hard constraints; when no
\* assignment satisfies them it raises, and a run that raised returned no
\* classes.
C19_CpSatRaisesWhenInfeasible ==
    algorithm = "cp_sat" =>
        /\ pc = "returned" =>
              /\ solver_status \in {"OPTIMAL", "FEASIBLE"}
              /\ error = "none"
              /\ \E x \in FeasibleAssignments(num_classes) :
                    classes = ExtractSolution(x, num_classes)
        /\ (pc \in {"returned", "raised"} /\ FeasibleAssignments(num_classes) = {}) =>
              pc = "raised"
        /\ pc = "raised" =>
              /\ solver_status \notin {"OPTIMAL", "FEASIBLE"}
              /\ error = "CP-SAT assignment failed"
              /\ classes = EmptyClasses(num_classes)

C19_Witness ==
    /\ algorithm = "cp_sat"
    /\ pc = "raised"
    /\ solver_status = "INFEASIBLE"
    /\ Cardinality(df.names) = 2
    /\ num_classes = 2
    /\ \E s \in df.names : df.notWith[s] # {}

\* C21: a greedy run terminates. Each iteration of the seeding loop removes
\* at least one student from the unassigned set, which starts with the N
\* students of the table, so the loop runs at most N times and cannot stall
\* while a student is unassigned; the validation sweep returns in one step;
\* and a balancer invocation, inside the seeding loop or on its own, makes
\* at most 50 moves and can always move or return.
C21_GreedyTerminates ==
    /\ [](pc = "seeding" =>
            /\ unassigned_students \subseteq Nodes
            /\ unassigned_students # {}
            /\ SeedCandidates(unassigned_students) # {})
    /\ [][(pc = "seeding") =>
            (/\ unassigned_students' \subseteq unassigned_students
             /\ unassigned_students' # unassigned_students
             /\ pc' = IF unassigned_students' = {} THEN "validate" ELSE "seeding")]_vars
    /\ [][(pc = "validate") => (pc' = "returned")]_vars
    /\ [](pc = "validate" => ENABLED (GreedyValidateMove \/ GreedyValidateClean))
    /\ [](iteration <= 50)
    /\ [][(pc = "balancing") =>
            (\/ iteration' = iteration + 1 /\ pc' = "balancing"
             \/ iteration' = iteration /\ pc' = "balanced")]_vars
    /\ [](pc = "balancing" => ENABLED (BalanceIteration \/ BalanceReturn))

\* a balancer invocation stopped by the cap with the classes still more than
\* 2 apart
C21_Witness ==
    /\ pc = "balanced"
    /\ iteration = 50
    /\ MaxSize(classes) - MinSize(classes) > 2

\* C22: the validation sweep at the end of a greedy run repairs every
\* student who has no friend in their own class while some class holds one
\* of their friends, not only the first such student it finds: after the
\* sweep each of them has been moved, or has been joined by a friend the
\* sweep moved.
C22_SweepRepairsEveryFriendless ==
    [][(algorithm = "greedy" /\ pc = "validate") =>
        (\A s \in Nodes :
            (/\ ~HasFriendInOwnClass(s)
             /\ \E j \in 1..Len(classes) : \E f \in G[s] : f \in classes[j])
            => \/ \E i \in 1..Len(classes) : s \in classes[i] /\ s \notin classes'[i]
               \/ \E i \in 1..Len(classes) :
                    s \in classes'[i] /\ \E f \in G[s] : f \in classes'[i])]_vars

\* the pair min() compares in the seeding loop
SeedKey(s, unassigned) ==
    <<Cardinality({f \in G[s] : f \in unassigned}), Cardinality(G[s])>>

\* C25: at every iteration of the seeding loop the student chosen is an
\* unassigned student whose pair (friends still unassigned, friends in all)
\* is lexicographically minimal among the unassigned students.
C25_SeedIsMinimal ==
    [][(algorithm = "greedy" /\ pc = "seeding") =>
        (/\ seeded' \in unassigned_students
         /\ \A t \in unassigned_students :
                LET a == SeedKey(seeded', unassigned_students)
                    b == SeedKey(t, unassigned_students)
                IN  a[1] < b[1] \/ (a[1] = b[1] /\ a[2] <= b[2]))]_vars

\* a student was seeded while a student with more friends and one with more
\* unassigned friends were still waiting
C25_Witness ==
    /\ algorithm = "greedy"
    /\ pc = "seeding"
    /\ seeded # 0
    /\ \E t \in unassigned_students : Cardinality(G[t]) > Cardinality(G[seeded])
    /\ \E t \in unassigned_students :
          Cardinality(G[t] \cap (unassigned_students \cup {seeded}))
            > Cardinality(G[seeded] \cap unassigned_students)

\* a class is eligible for s: it holds a friend of s and no student s names
\* in the notWith column
IsEligible(s, c) ==
    /\ \E f \in G[s] : f \in c
    /\ \A o \in df.notWith[s] : o \notin c

\* C24: whenever some class is eligible for the seeded student, the class
\* chosen for the student is an eligible one.
C24_ChosenClassEligible ==
    [][(algorithm = "greedy" /\ pc = "seeding") =>
        ((\E i \in 1..Len(classes) : IsEligible(seeded', classes[i]))
            => IsEligible(seeded', classes[best_class']))]_vars

\* a student was seeded with some classes eligible and some not, and sent to
\* an eligible one
C24_Witness ==
    /\ algorithm = "greedy"
    /\ seeded # 0
    /\ scores # {}
    /\ scores # 1..num_classes
    /\ best_class \in scores
    /\ best_class # 1

\* C23: when no class is eligible for the seeded student, the class chosen
\* is the lowest-numbered one among those leaving the fewest of the
\* student's friends outside it.
C23_FallbackClass ==
    [][(algorithm = "greedy" /\ pc = "seeding") =>
        ((\A i \in 1..Len(classes) : ~IsEligible(seeded', classes[i]))
            => LET outside(i) == Cardinality({f \in G[seeded'] : f \notin classes[i]})
               IN  /\ best_class' \in 1..Len(classes)
                   /\ \A j \in 1..Len(classes) : outside(best_class') <= outside(j)
                   /\ \A j \in 1..(best_class' - 1) : outside(j) > outside(best_class'))]_vars

\* C26: a balancer invocation with force_balance = true moves, at every
\* iteration, one student from a largest class to a smallest class, that
\* student having the most friends in the smallest class among the students
\* of the largest; when it returns the class sizes are at most 2 apart or
\* exactly 50 moves were made.
C26_ForcedBalancer ==
    /\ [][(pc = "balancing" /\ pc' = "balancing") =>
            (\E L, S \in 1..Len(classes) : \E s \in classes[L] :
                /\ Cardinality(classes[L]) = MaxSize(classes)
                /\ Cardinality(classes[S]) = MinSize(classes)
                /\ classes' = [classes EXCEPT ![L] = @ \ {s}, ![S] = @ \cup {s}]
                /\ \A t \in classes[L] :
                      Cardinality(G[t] \cap classes[S]) <= Cardinality(G[s] \cap classes[S])
                /\ iteration' = iteration + 1)]_vars
    /\ [][(pc = "balancing" /\ pc' = "balanced") =>
            (classes' = classes /\ iteration' = iteration)]_vars
    /\ [](pc = "balanced" =>
            MaxSize(classes) - MinSize(classes) <= 2 \/ iteration = 50)
    /\ [](pc \in {"seeding", "validate"} /\ seeded # 0 =>
            MaxSize(classes) - MinSize(classes) <= 2 \/ iteration = 50)

\* an invocation stopped by the cap in which every student moved joined a
\* friend in the smallest class
C26_Witness ==
    /\ pc = "balanced"
    /\ iteration = 50
    /\ \E S \in 1..Len(classes) :
          /\ Cardinality(classes[S]) = MinSize(classes)
          /\ Cardinality(classes[S]) >= 50
          /\ \A s \in classes[S] : G[s] \cap classes[S] # {}

\* the friendships, as unordered pairs of two students, that have both ends
\* in one class of cls
IntraClassFriendships(cls) ==
    Cardinality({e \in {{s, t} : s, t \in Nodes} :
                    /\ Cardinality(e) = 2
                    /\ \E s \in e : e \subseteq (G[s] \cup {s})
                    /\ \E i \in 1..Len(cls) : e \subseteq cls[i]})

\* the hard constraints of the CP-SAT strategy stated on a class list
MeetsHardConstraints(cls) ==
    /\ \A s \in Nodes : \E i \in 1..Len(cls) : s \in cls[i] /\ G[s] \cap cls[i] # {}
    /\ \A a, b \in Nodes :
          b \in df.notWith[a] => ~\E i \in 1..Len(cls) : {a, b} \subseteq cls[i]
    /\ LET t  == Cardinality(Nodes) \div Len(cls)
           lo == IF t - 1 >= 1 THEN t - 1 ELSE 1
       IN  \A i \in 1..Len(cls) :
              Cardinality(cls[i]) >= lo /\ Cardinality(cls[i]) <= t + 2

\* C27: the CP-SAT objective of an assignment is the number of friendships
\* with both students in the same class, each friendship counted once, and
\* classes returned with status OPTIMAL have the most such friendships among
\* all class lists meeting the hard constraints.
C27_CpSatObjective ==
    /\ (algorithm = "cp_sat" /\ pc = "solving") =>
          \A x \in CandidateAssignments(num_classes) :
              ObjectiveValue(x, num_classes)
                  = IntraClassFriendships(ExtractSolution(x, num_classes))
    /\ (algorithm = "cp_sat" /\ pc = "returned" /\ solver_status = "OPTIMAL") =>
          \A cls \in PlacedClasses(Nodes, num_classes) :
              MeetsHardConstraints(cls) =>
                  IntraClassFriendships(cls) <= IntraClassFriendships(classes)

\* an OPTIMAL result over two or more classes that keeps more friendships
\* together than another class list meeting the constraints
C27_Witness ==
    /\ algorithm = "cp_sat"
    /\ pc = "returned"
    /\ solver_status = "OPTIMAL"
    /\ num_classes >= 2
    /\ \E cls \in PlacedClasses(Nodes, num_classes) :
          /\ MeetsHardConstraints(cls)
          /\ IntraClassFriendships(cls) < IntraClassFriendships(classes)

\* C28: the evaluator's not_with_violations is empty exactly when no class
\* holds two students one of whom names the other in the not-with map; a
\* pair only one of whom names the other is reported too.
C28_NotWithViolations ==
    \A e \in 1..Len(metrics) :
        metrics[e] # EvaluatorRaised =>
            ((metrics[e].not_with_violations = {})
                <=> ~\E i \in 1..Len(classes) : \E a, b \in classes[i] :
                        a # b /\ (b \in not_with[a] \/ a \in not_with[b]))

\* an evaluation that reported a pair sharing a class of whom only one
\* names the other
C28_Witness ==
    /\ Len(metrics) >= 1
    /\ metrics[1] # EvaluatorRaised
    /\ metrics[1].not_with_violations # {}
    /\ \A i \in 1..Len(classes) : \A a, b \in classes[i] :
          b \in not_with[a] => a \notin not_with[b]

\* the table got as far as the friendship network
ReachedNetwork ==
    /\ data_error # None
    /\ data_error.code \notin {"EMPTY_STUDENT_DATA", "MISSING_REQUIRED_FIELDS",
                               "DUPLICATE_STUDENT_NAMES"}

\* the row lists no student of the table as a friend
NoValidFriendship(row, rows) ==
    \A c \in 1..FriendSlots :
        row.friend[c] \notin {rows[j].name : j \in 1..Len(rows)}

\* C29: validate_student_data never fails with ISOLATED_STUDENTS; a table
\* with a student who lists no student of the table is rejected before the
\* isolated-node check, as STUDENT_NO_FRIENDS or UNKNOWN_FRIEND.
C29_NeverIsolatedStudents ==
    /\ data_error # None => data_error.code # "ISOLATED_STUDENTS"
    /\ (/\ ReachedNetwork
        /\ \E i \in 1..Len(student_rows.rows) :
              NoValidFriendship(student_rows.rows[i], student_rows.rows))
       => data_error.code \in {"STUDENT_NO_FRIENDS", "UNKNOWN_FRIEND"}

\* the table of test_isolated_students: the second student lists nobody
\* and is named by the first
C29_Witness ==
    /\ ReachedNetwork
    /\ Len(student_rows.rows) = 2
    /\ student_rows.rows[1].friend[1] = student_rows.rows[2].name
    /\ student_rows.rows[1].name # student_rows.rows[2].name
    /\ \A c \in 1..FriendSlots : student_rows.rows[2].friend[c] = 0
    /\ data_error.code = "STUDENT_NO_FRIENDS"
    /\ data_error.studentName = student_rows.rows[2].name

\* C30: in a table validate_student_data accepts, every student lists a
\* friend who is another student; a student whose only listed friend is
\* themself is rejected.
C30_FriendIsAnotherStudent ==
    (data_error = NoError) =>
        \A i \in 1..Len(student_rows.rows) :
            \E c \in 1..FriendSlots :
                /\ student_rows.rows[i].friend[c] # 0
                /\ student_rows.rows[i].friend[c] # student_rows.rows[i].name
====
